---------------------------- MODULE Spec2Model ----------------------------
(***************************************************************************)
(* KTreeView (src/KTreeView.py): a hierarchy of cells read from a text     *)
(* file of '/'-separated paths, laid out as a squarified treemap, cached   *)
(* per displayed hierarchy path and indexed in a 5x5 grid for hover and    *)
(* click.                                                                  *)
(*                                                                         *)
(* Strings are sequences of one-character strings, so that split, rstrip,  *)
(* strip and join are modelled by what they do.  Floating point numbers    *)
(* are modelled as exact rationals <<numerator, denominator>>.             *)
(***************************************************************************)
EXTENDS Integers, Sequences, FiniteSets, TLC

VARIABLES
    screen_width,            \* self.screen_width
    screen_height,           \* self.screen_height
    initial_frame,           \* self.initial_frame : RectFrame
    top_cell,                \* self.top_cell : string
    current_shown_hierarchy, \* self.current_shown_hierarchy : string
    tree_root,               \* self.tree_root : 0 (None) or the id of the root
    nodes,                   \* the TreeNode objects of the tree, by id
    tree_cache,              \* self.tree_cache : hierarchy string -> rects
    cell_rects,              \* self.cell_rects : grid cell -> list of CellRect
    ratio_queue,             \* self.ratio_queue : deque of RatioStep
    mouse_down,              \* self.mouse_down : <<>> (None) or <<CellRect>>
    progress_bar_current,    \* self.progress_bar_current
    progress_bar_total,      \* self.progress_bar_total
    raised,                  \* the exception that ended the program, "" if none
    pc,                      \* position inside load_hierarchy, "idle" outside
    event                    \* the handler that ran last, with its argument

vars == <<screen_width, screen_height, initial_frame, top_cell,
          current_shown_hierarchy, tree_root, nodes, tree_cache, cell_rects,
          ratio_queue, mouse_down, progress_bar_current,
          progress_bar_total, raised, pc, event>>

-----------------------------------------------------------------------------
(* Bounds of the model *)

\* most segments in the input lines enumerated over Names (SegmentLists)
MaxDepth == 2
\* most TreeNode objects below the root in a tree built step by step
MaxNodes == 5
\* most lines in a file whose load is followed line by line
MaxLines == 3

-----------------------------------------------------------------------------
(* Program constants *)

DefaultScreenWidth == 1280
DefaultScreenHeight == 720
frame_margin == 10
frame_top == 300
spatial_partition_size == 5

-----------------------------------------------------------------------------
(* Exact rational arithmetic, standing for Python's floats *)

RECURSIVE Gcd(_, _)
Gcd(a, b) == IF b = 0 THEN a ELSE Gcd(b, a % b)

Abs(a) == IF a < 0 THEN 0 - a ELSE a

\* the rational n/d in lowest terms with a positive denominator
Rat(n, d) ==
    LET g == Gcd(Abs(n), Abs(d))
        s == IF d < 0 THEN 0 - 1 ELSE 1
    IN  <<(s * n) \div g, (s * d) \div g>>

RInt(n) == <<n, 1>>
RAdd(p, q) == Rat(p[1] * q[2] + q[1] * p[2], p[2] * q[2])
RSub(p, q) == Rat(p[1] * q[2] - q[1] * p[2], p[2] * q[2])
RMul(p, q) == Rat(p[1] * q[1], p[2] * q[2])
RDiv(p, q) == Rat(p[1] * q[2], p[2] * q[1])
RLt(p, q) == p[1] * q[2] < q[1] * p[2]
RLe(p, q) == p[1] * q[2] <= q[1] * p[2]
\* math.floor
RFloor(p) == p[1] \div p[2]
\* int(): truncation toward zero, as pygame.Rect converts float arguments
RTrunc(p) == IF p[1] >= 0 THEN p[1] \div p[2] ELSE 0 - ((0 - p[1]) \div p[2])

-----------------------------------------------------------------------------
(* Strings *)

Slash == "/"
Newline == "\n"

\* str.startswith('/')
StartsWithSlash(s) == Len(s) > 0 /\ s[1] = Slash

\* str.split('/'): the pieces between the separators; '' splits to ['']
RECURSIVE SplitFrom(_, _, _)
SplitFrom(s, i, cur) ==
    IF i > Len(s) THEN <<cur>>
    ELSE IF s[i] = Slash THEN <<cur>> \o SplitFrom(s, i + 1, <<>>)
    ELSE SplitFrom(s, i + 1, Append(cur, s[i]))

Split(s) == SplitFrom(s, 1, <<>>)

\* '/'.join(parts)
RECURSIVE Join(_)
Join(parts) ==
    IF Len(parts) = 0 THEN <<>>
    ELSE IF Len(parts) = 1 THEN parts[1]
    ELSE parts[1] \o <<Slash>> \o Join(Tail(parts))

\* str.rstrip('\n')
RECURSIVE RStrip(_)
RStrip(s) ==
    IF Len(s) > 0 /\ s[Len(s)] = Newline THEN RStrip(SubSeq(s, 1, Len(s) - 1))
    ELSE s

\* str.lstrip('\n')
RECURSIVE LStrip(_)
LStrip(s) ==
    IF Len(s) > 0 /\ s[1] = Newline THEN LStrip(Tail(s))
    ELSE s

\* str.strip('\n')
Strip(s) == LStrip(RStrip(s))

-----------------------------------------------------------------------------
(* class TreeNode.  A node is a record; nds is the sequence of all the     *)
(* nodes of one tree, a node's id its index, the root's id 1; parent 0 is  *)
(* None; children lists the ids of the dict self.children in insertion     *)
(* order; ratio is <<>> for None and <<PositionRatio>> otherwise.          *)

RootId == 1

TreeNode(name, parent) ==
    [name |-> name, parent |-> parent, children |-> <<>>, ratio |-> <<>>]

\* the tree of a fresh root: self.TreeNode('')
NewTree == <<TreeNode(<<>>, 0)>>

Range(f) == {f[i] : i \in DOMAIN f}

\* self.children[part] if part in self.children, else 0
ChildNamed(nds, n, part) ==
    LET found == {c \in Range(nds[n].children) : nds[c].name = part}
    IN  IF found = {} THEN 0 ELSE CHOOSE c \in found : TRUE

\* node.add_child(TreeNode(name, node)): the new node gets the next id
AddChild(nds, n, name) ==
    LET id == Len(nds) + 1
    IN  Append([nds EXCEPT ![n].children = Append(@, id)], TreeNode(name, n))

\* sum([...]) of a list of integers
RECURSIVE SumSeq(_)
SumSeq(s) == IF Len(s) = 0 THEN 0 ELSE s[1] + SumSeq(Tail(s))

\* a count of the immediate children only
get_children_count_direct(nds, n) == Len(nds[n].children)

RECURSIVE get_children_count(_, _)
get_children_count(nds, n) ==
    LET ch == nds[n].children
    IN  Len(ch) + SumSeq([i \in 1..Len(ch) |-> get_children_count(nds, ch[i])])

get_size(nds, n) ==
    LET c == get_children_count(nds, n) IN IF c > 1 THEN c ELSE 1

\* a count of the immediate children instead of the leaves below
get_leaf_count_children(nds, n) ==
    IF Len(nds[n].children) = 0 THEN 1 ELSE Len(nds[n].children)

RECURSIVE get_leaf_count(_, _)
get_leaf_count(nds, n) ==
    LET ch == nds[n].children
    IN  IF Len(ch) = 0 THEN 1
        ELSE SumSeq([i \in 1..Len(ch) |-> get_leaf_count(nds, ch[i])])

RECURSIVE get_full_path(_, _)
get_full_path(nds, n) ==
    IF nds[n].parent = 0 THEN <<>>
    ELSE get_full_path(nds, nds[n].parent) \o <<Slash>> \o nds[n].name

\* the loop of add_hierarchy_to_tree without part.rstrip
RECURSIVE AddPartsNoRStrip(_, _, _)
AddPartsNoRStrip(nds, current_node, parts) ==
    IF Len(parts) = 0 THEN nds
    ELSE LET part == parts[1]
             nds2 == IF ChildNamed(nds, current_node, part) = 0
                     THEN AddChild(nds, current_node, part)
                     ELSE nds
         IN  AddPartsNoRStrip(nds2, ChildNamed(nds2, current_node, part), Tail(parts))

\* the loop of add_hierarchy_to_tree over parts[1:]
RECURSIVE AddParts(_, _, _)
AddParts(nds, current_node, parts) ==
    IF Len(parts) = 0 THEN nds
    ELSE LET part == RStrip(parts[1])
             nds2 == IF ChildNamed(nds, current_node, part) = 0
                     THEN AddChild(nds, current_node, part)
                     ELSE nds
         IN  AddParts(nds2, ChildNamed(nds2, current_node, part), Tail(parts))

add_hierarchy_to_tree(nds, node, hierarchy) ==
    AddParts(nds, node, Tail(Split(hierarchy)))

\* the body of the loop of build_tree_from_text for one line
BuildLine(nds, line) ==
    IF ~StartsWithSlash(line) THEN nds
    ELSE add_hierarchy_to_tree(nds, RootId, line)

-----------------------------------------------------------------------------
(* Updating ratios.                                                        *)
(*                                                                         *)
(* adjust_rectangle_dimensions returns the rectangle W x H with            *)
(* W / H = width / height and W * H = new_area; W and H are square roots   *)
(* and irrational in general.  Inside update_ratio every length is         *)
(* therefore kept in units of H and every area (a get_size() value) in     *)
(* units of H * H = new_area / aspect_ratio: reference_height is 1,        *)
(* reference_width is aspect_ratio, and a size s is the area s / unit.     *)
(* With that, each assignment of update_ratio is modelled term by term.    *)
(* The position ratios and the aspect ratio of the rectangle handed to     *)
(* each child are quotients of two lengths, or of two areas, and do not    *)
(* depend on the unit.                                                     *)

\* a variant with the two coordinates exchanged
PositionRatioSwapped(x, y, width, height) ==
    [x |-> y, y |-> x, width |-> width, height |-> height]

PositionRatio(x, y, width, height) ==
    [x |-> x, y |-> y, width |-> width, height |-> height]

RatioStep(node, reference_width, reference_height) ==
    [node |-> node, reference_width |-> reference_width,
     reference_height |-> reference_height]

\* a variant without the square root: new_width is new_area * aspect_ratio
\* and new_height is new_area, so that the unit of area is new_area squared
adjust_rectangle_dimensions_no_root(width, height, new_area) ==
    LET aspect_ratio == RDiv(width, height)
    IN  IF new_area = 0
        THEN [width |-> RInt(0), height |-> RInt(0), unit |-> RInt(1)]
        ELSE [width |-> aspect_ratio, height |-> RInt(1),
              unit |-> RInt(new_area * new_area)]

adjust_rectangle_dimensions(width, height, new_area) ==
    LET aspect_ratio == RDiv(width, height)
    IN  IF new_area = 0
        THEN [width |-> RInt(0), height |-> RInt(0), unit |-> RInt(1)]
        ELSE [width |-> aspect_ratio, height |-> RInt(1),
              unit |-> RDiv(RInt(new_area), aspect_ratio)]

\* list.sort(key = get_children_count): a stable sort, ascending
RECURSIVE InsertByCount(_, _, _)
InsertByCount(nds, sorted, c) ==
    IF Len(sorted) = 0 THEN <<c>>
    ELSE IF get_children_count(nds, sorted[Len(sorted)]) <= get_children_count(nds, c)
         THEN Append(sorted, c)
         ELSE Append(InsertByCount(nds, SubSeq(sorted, 1, Len(sorted) - 1), c),
                     sorted[Len(sorted)])

\* a variant that sorts by descending get_children_count
RECURSIVE SortByCountDescending(_, _)
SortByCountDescending(nds, s) ==
    IF Len(s) = 0 THEN <<>>
    ELSE LET sorted == InsertByCount(nds,
                           [i \in 1..(Len(s) - 1) |->
                               SortByCountDescending(nds, SubSeq(s, 1, Len(s) - 1))[Len(s) - i]],
                           s[Len(s)])
         IN  [i \in 1..Len(sorted) |-> sorted[Len(sorted) + 1 - i]]

RECURSIVE SortByCount(_, _)
SortByCount(nds, s) ==
    IF Len(s) = 0 THEN <<>>
    ELSE InsertByCount(nds, SortByCount(nds, SubSeq(s, 1, Len(s) - 1)), s[Len(s)])

\* sum([cell.get_size() for cell in cells]), as an area
SizeOf(nds, unit, cells) ==
    RDiv(RInt(SumSeq([i \in 1..Len(cells) |-> get_size(nds, cells[i])])), unit)

\* the aspect ratio tested after a cell is added to the partition buffer
SmallestRatio(nds, unit, partition_length, partition_buffer) ==
    LET partition_buffer_size == SizeOf(nds, unit, partition_buffer)
        smallest_partition_width == RDiv(partition_buffer_size, partition_length)
        smallest_partition_length ==
            RDiv(RMul(partition_length,
                      SizeOf(nds, unit, <<partition_buffer[Len(partition_buffer)]>>)),
                 partition_buffer_size)
    IN  RDiv(smallest_partition_width, smallest_partition_length)

\* smallest_partition_block_aspect_ratio < 2 on floats.  The ratio is a
\* quotient of rounded quotients of square roots: where its exact value is
\* 2 the float is 2.0 or the float just below it (1.9999999999999998 for
\* two equal cells in a square), and rounds_down says which
BelowThreshold(ratio, rounds_down) ==
    RLt(ratio, RInt(2)) \/ (rounds_down /\ ratio = RInt(2))

\* the inner while loop: cells move from the end of children_to_update to
\* the partition buffer until the tested ratio reaches 2 or none is left;
\* ratio is smallest_partition_block_aspect_ratio
RECURSIVE Accumulate(_, _, _, _, _, _, _)
Accumulate(nds, unit, partition_length, partition_buffer, children_to_update, ratio, rounds_down) ==
    IF BelowThreshold(ratio, rounds_down)
       /\ Len(children_to_update) > 0
    THEN LET buffer == Append(partition_buffer,
                              children_to_update[Len(children_to_update)])
             rest == SubSeq(children_to_update, 1, Len(children_to_update) - 1)
         IN  Accumulate(nds, unit, partition_length, buffer, rest,
                        SmallestRatio(nds, unit, partition_length, buffer),
                        rounds_down)
    ELSE [partition_buffer |-> partition_buffer,
          children_to_update |-> children_to_update,
          ratio |-> ratio]

\* a variant that takes the last cell from the buffer and loses it
BackOutDrop(acc) ==
    IF Len(acc.partition_buffer) # 1
    THEN [partition_buffer |->
              SubSeq(acc.partition_buffer, 1, Len(acc.partition_buffer) - 1),
          children_to_update |-> acc.children_to_update]
    ELSE [partition_buffer |-> acc.partition_buffer,
          children_to_update |-> acc.children_to_update]

\* if len(partition_buffer) != 1: the last cell goes back to the queue
BackOut(acc) ==
    IF Len(acc.partition_buffer) # 1
    THEN [partition_buffer |->
              SubSeq(acc.partition_buffer, 1, Len(acc.partition_buffer) - 1),
          children_to_update |->
              Append(acc.children_to_update,
                     acc.partition_buffer[Len(acc.partition_buffer)])]
    ELSE [partition_buffer |-> acc.partition_buffer,
          children_to_update |-> acc.children_to_update]

\* the for loop of the is_wider branch: the cells of the strip, top to bottom
RECURSIVE PlaceWider(_, _, _, _, _, _, _, _)
PlaceWider(st, unit, cells, total_area, partition_width, partition_length, global_ratio_width, current_ratio_y) ==
    IF Len(cells) = 0 THEN st
    ELSE LET cell == cells[1]
             current_ratio_height == RDiv(SizeOf(st.nodes, unit, <<cell>>), total_area)
             global_ratio_height ==
                 RDiv(RMul(current_ratio_height, st.current_height),
                      st.reference_height)
             st2 == [st EXCEPT
                 !.queue = Append(@, RatioStep(cell, partition_width,
                                    RMul(partition_length, current_ratio_height))),
                 !.nodes[cell].ratio =
                     <<PositionRatio(st.global_ratio_x, current_ratio_y,
                                     global_ratio_width, global_ratio_height)>>]
         IN  PlaceWider(st2, unit, Tail(cells), total_area, partition_width,
                        partition_length, global_ratio_width,
                        RAdd(current_ratio_y, global_ratio_height))

\* the for loop of the else branch: the cells of the strip, left to right
RECURSIVE PlaceTaller(_, _, _, _, _, _, _, _)
PlaceTaller(st, unit, cells, total_area, partition_width, partition_length, global_ratio_height, current_ratio_x) ==
    IF Len(cells) = 0 THEN st
    ELSE LET cell == cells[1]
             current_ratio_width == RDiv(SizeOf(st.nodes, unit, <<cell>>), total_area)
             global_ratio_width ==
                 RDiv(RMul(current_ratio_width, st.current_width),
                      st.reference_width)
             st2 == [st EXCEPT
                 !.queue = Append(@, RatioStep(cell,
                                    RMul(partition_length, current_ratio_width),
                                    partition_width)),
                 !.nodes[cell].ratio =
                     <<PositionRatio(current_ratio_x, st.global_ratio_y,
                                     global_ratio_width, global_ratio_height)>>]
         IN  PlaceTaller(st2, unit, Tail(cells), total_area, partition_width,
                         partition_length, global_ratio_height,
                         RAdd(current_ratio_x, global_ratio_width))

\* one iteration of the outer while loop of update_ratio, after the check
\* for an empty partition buffer: one strip is laid out
LayOutStrip(st, unit, is_wider, partition_length, fin) ==
    LET partition_buffer == fin.partition_buffer
        partition_buffer_total_area == SizeOf(st.nodes, unit, partition_buffer)
        partition_width == RDiv(partition_buffer_total_area, partition_length)
        st1 == [st EXCEPT !.children_to_update = fin.children_to_update]
    IN  IF is_wider
        THEN LET global_ratio_width == RDiv(partition_width, st.reference_width)
                 st2 == PlaceWider(st1, unit, partition_buffer,
                                   partition_buffer_total_area, partition_width,
                                   partition_length, global_ratio_width,
                                   st.global_ratio_y)
             IN  [st2 EXCEPT
                     !.global_ratio_x = RAdd(@, global_ratio_width),
                     !.current_width = RSub(@, partition_width)]
        ELSE LET global_ratio_height == RDiv(partition_width, st.reference_height)
                 st2 == PlaceTaller(st1, unit, partition_buffer,
                                    partition_buffer_total_area, partition_width,
                                    partition_length, global_ratio_height,
                                    st.global_ratio_x)
             IN  [st2 EXCEPT
                     !.global_ratio_y = RAdd(@, global_ratio_height),
                     !.current_height = RSub(@, partition_width)]

\* the outer while loop of update_ratio
RECURSIVE Partition(_, _, _)
Partition(st, unit, rounds_down) ==
    IF Len(st.children_to_update) = 0 THEN st
    ELSE LET is_wider == RLt(st.current_height, st.current_width)
             partition_length ==
                 IF is_wider THEN st.current_height ELSE st.current_width
             acc == Accumulate(st.nodes, unit, partition_length, <<>>,
                               st.children_to_update, RInt(0), rounds_down)
         IN  IF Len(acc.partition_buffer) <= 0
             THEN [st EXCEPT !.children_to_update = <<>>]
             ELSE Partition(LayOutStrip(st, unit, is_wider, partition_length,
                                        BackOut(acc)), unit, rounds_down)

\* update_ratio(node, reference_width, reference_height) on the tree nds
\* with the ratio queue queue: the tree and the queue afterwards
update_ratio(nds, queue, node, reference_width, reference_height, rounds_down) ==
    LET children_to_update == SortByCount(nds, nds[node].children)
        total_size_of_children ==
            SumSeq([i \in 1..Len(children_to_update) |->
                        get_size(nds, children_to_update[i])])
        ref == adjust_rectangle_dimensions(reference_width, reference_height,
                                           total_size_of_children)
        st == Partition([nodes |-> nds, queue |-> queue,
                         children_to_update |-> children_to_update,
                         reference_width |-> ref.width,
                         reference_height |-> ref.height,
                         global_ratio_x |-> RInt(0), global_ratio_y |-> RInt(0),
                         current_width |-> ref.width,
                         current_height |-> ref.height], ref.unit, rounds_down)
    IN  [nodes |-> st.nodes, queue |-> st.queue]

\* the while loop of load_hierarchy over the ratio queue
RECURSIVE RatioPass(_, _, _)
RatioPass(nds, queue, rounds_down) ==
    IF Len(queue) = 0 THEN nds
    ELSE LET step == Head(queue)
             r == update_ratio(nds, Tail(queue), step.node,
                               step.reference_width, step.reference_height,
                               rounds_down)
         IN  RatioPass(r.nodes, r.queue, rounds_down)

-----------------------------------------------------------------------------
(* Drawing nodes.  Surfaces, colours and text are presentation and are     *)
(* left out; what display_hierarchy stores for hover and click is kept:    *)
(* the lists of CellRect of the 5x5 grid.                                  *)

RectFrame(x, y, width, height) ==
    [x |-> x, y |-> y, width |-> width, height |-> height]

\* pygame.Rect(x, y, width, height) of float arguments: integer fields
PygameRect(rect_frame) ==
    [x |-> RTrunc(rect_frame.x), y |-> RTrunc(rect_frame.y),
     width |-> RTrunc(rect_frame.width), height |-> RTrunc(rect_frame.height)]

CellRect(full_path, rect) == [full_path |-> full_path, rect |-> rect]

\* pygame.Rect.collidepoint
collidepoint(rect, pos) ==
    /\ rect.x <= pos[1] /\ pos[1] < rect.x + rect.width
    /\ rect.y <= pos[2] /\ pos[2] < rect.y + rect.height

rectangle_collision(rect_a, rect_b) ==
    /\ RLt(rect_a.x, RAdd(rect_b.x, rect_b.width))
    /\ RLt(rect_b.x, RAdd(rect_a.x, rect_a.width))
    /\ RLt(rect_a.y, RAdd(rect_b.y, rect_b.height))
    /\ RLt(rect_b.y, RAdd(rect_a.y, rect_a.height))

GridCells == 0 .. (spatial_partition_size * spatial_partition_size - 1)

\* the rects dict of a new cache entry: an empty list for every grid cell
EmptyRects == [i \in GridCells |-> <<>>]

\* the quadrant of grid cell row * spatial_partition_size + col
Quadrant(frame, i) ==
    LET row == i \div spatial_partition_size
        col == i % spatial_partition_size
        n == RInt(spatial_partition_size)
    IN  RectFrame(RAdd(frame.x, RDiv(RMul(RInt(col), frame.width), n)),
                  RAdd(frame.y, RDiv(RMul(RInt(row), frame.height), n)),
                  RDiv(frame.width, n), RDiv(frame.height, n))

\* a variant that spreads the children over the whole frame of the parent
ChildFrameNoInset(rect_frame, ratio) ==
    RectFrame(RAdd(rect_frame.x, RMul(rect_frame.width, ratio.x)),
              RAdd(rect_frame.y, RMul(rect_frame.height, ratio.y)),
              RMul(rect_frame.width, ratio.width),
              RMul(rect_frame.height, ratio.height))

\* the frame of a child inside the frame of its parent
ChildFrame(rect_frame, ratio) ==
    LET draw_region_width == RSub(rect_frame.width, RInt(10))
        draw_region_height == RSub(rect_frame.height, RInt(20))
    IN  RectFrame(RAdd(RAdd(rect_frame.x, RInt(5)), RMul(draw_region_width, ratio.x)),
                  RAdd(RAdd(rect_frame.y, RInt(15)), RMul(draw_region_height, ratio.y)),
                  RMul(draw_region_width, ratio.width),
                  RMul(draw_region_height, ratio.height))

\* the quadrants of all grid cells, that of cell i at index i + 1
RECURSIVE QuadrantsUpTo(_, _)
QuadrantsUpTo(frame, n) ==
    IF n = 0 THEN <<>>
    ELSE Append(QuadrantsUpTo(frame, n - 1), Quadrant(frame, n - 1))

Quadrants(frame) ==
    QuadrantsUpTo(frame, spatial_partition_size * spatial_partition_size)

DrawStep(node, rect_frame) == [node |-> node, rect_frame |-> rect_frame]

\* draw_node(node, rect_frame) on the state d = [rects, queue, current,
\* raised]: the rects of the cache entry being filled, the draw queue,
\* progress_bar_current and the exception raised; quadrants are the
\* quadrants of self.initial_frame
draw_node(nds, quadrants, d, node, rect_frame) ==
    LET current_cell_rectangle ==
            CellRect(get_full_path(nds, node), PygameRect(rect_frame))
        rects == [i \in GridCells |->
                     IF rectangle_collision(quadrants[i + 1], rect_frame)
                     THEN Append(d.rects[i], current_cell_rectangle)
                     ELSE d.rects[i]]
        children == nds[node].children
        drawn == IF Len(children) = 0 THEN d.current + 1 ELSE d.current
    IN  IF RLe(rect_frame.width, RInt(10 * 2)) \/ RLe(rect_frame.height, RInt(20 * 2))
        THEN [d EXCEPT !.rects = rects,
                       !.current = drawn +
                           SumSeq([i \in 1..Len(children) |->
                                      get_leaf_count(nds, children[i])])]
        ELSE IF \E i \in 1..Len(children) : nds[children[i]].ratio = <<>>
        THEN [d EXCEPT !.rects = rects, !.current = drawn,
                       !.raised = "AttributeError"]
        ELSE [d EXCEPT !.rects = rects, !.current = drawn,
                       !.queue = @ \o [i \in 1..Len(children) |->
                           DrawStep(children[i],
                                    ChildFrame(rect_frame,
                                               nds[children[i]].ratio[1]))]]

\* the while loop of display_hierarchy over the draw queue
RECURSIVE DrawAll(_, _, _)
DrawAll(nds, quadrants, d) ==
    IF Len(d.queue) = 0 \/ d.raised # "" THEN d
    ELSE LET step == Head(d.queue)
         IN  DrawAll(nds, quadrants,
                     draw_node(nds, quadrants, [d EXCEPT !.queue = Tail(@)],
                               step.node, step.rect_frame))

\* the for loop of display_hierarchy over parts[1:]
RECURSIVE Resolve(_, _, _)
Resolve(nds, current_node, parts) ==
    IF Len(parts) = 0 THEN current_node
    ELSE IF ChildNamed(nds, current_node, parts[1]) # 0
         THEN Resolve(nds, ChildNamed(nds, current_node, parts[1]), Tail(parts))
         ELSE current_node

\* self.tree_cache[key] = value
CachePut(cache, key, value) ==
    [k \in DOMAIN cache \cup {key} |-> IF k = key THEN value ELSE cache[k]]

\* the empty dict
EmptyCache == [k \in {} |-> EmptyRects]

\* display_hierarchy(node, hierarchy) in the state c = [tree_cache,
\* cell_rects, current, total, raised], on the tree nds with root node
\* (0 for None) and the initial frame frame: the state afterwards
display_hierarchy(c, nds, node, frame, hierarchy) ==
    IF hierarchy \in DOMAIN c.tree_cache
    THEN [c EXCEPT !.cell_rects = c.tree_cache[hierarchy]]
    ELSE IF node = 0
    THEN [c EXCEPT !.tree_cache = CachePut(@, hierarchy, EmptyRects),
                   !.current = 0,
                   !.raised = "AttributeError"]
    ELSE LET current_node == Resolve(nds, node, Tail(Split(hierarchy)))
             d == DrawAll(nds, Quadrants(frame),
                          [rects |-> EmptyRects,
                           queue |-> <<DrawStep(current_node, frame)>>,
                           current |-> 0, raised |-> ""])
         IN  [tree_cache |-> CachePut(c.tree_cache, hierarchy, d.rects),
              cell_rects |-> IF d.raised = "" THEN d.rects ELSE c.cell_rects,
              current |-> d.current,
              total |-> get_leaf_count(nds, current_node),
              raised |-> d.raised]

-----------------------------------------------------------------------------
(* Hierarchy loading *)

\* get_top_cell on the lines of the file
RECURSIVE get_top_cell(_)
get_top_cell(file) ==
    IF Len(file) = 0 THEN <<>>
    ELSE LET line == Head(file)
             parts == Split(line)
         IN  IF StartsWithSlash(line) /\ Len(parts) > 1 /\ parts[2] # <<>>
             THEN Strip(Join(SubSeq(parts, 1, 2)))
             ELSE get_top_cell(Tail(file))

\* the tree build_tree_from_text returns for the lines of the file
RECURSIVE BuildLines(_, _)
BuildLines(nds, file) ==
    IF Len(file) = 0 THEN nds
    ELSE BuildLines(BuildLine(nds, Head(file)), Tail(file))

build_tree_from_text(file) == BuildLines(NewTree, file)

\* update_progress_bar raises ZeroDivisionError when progress_bar_total is 0
UpdateProgressBarRaises(total) == total = 0

InitialFrame(width, height) ==
    RectFrame(RInt(frame_margin), RInt(frame_top),
              RInt(width - frame_margin * 2),
              RInt(height - frame_top - frame_margin))

-----------------------------------------------------------------------------
(* Hover *)

\* tree_collision_check: self.mouse_down afterwards
tree_collision_check(frame, rects, pos, down) ==
    LET mouse_x_offset == RSub(RInt(pos[1]), frame.x)
        mouse_y_offset == RSub(RInt(pos[2]), frame.y)
        within_frame ==
            /\ RLt(RInt(0), mouse_x_offset) /\ RLt(RInt(0), mouse_y_offset)
            /\ RLt(mouse_x_offset, frame.width)
            /\ RLt(mouse_y_offset, frame.height)
        col == RFloor(RMul(RDiv(mouse_x_offset, frame.width),
                           RInt(spatial_partition_size)))
        row == RFloor(RMul(RDiv(mouse_y_offset, frame.height),
                           RInt(spatial_partition_size)))
        list == rects[row * spatial_partition_size + col]
        hits == {i \in 1..Len(list) : collidepoint(list[i].rect, pos)}
    IN  IF ~within_frame \/ hits = {} THEN down
        ELSE <<list[CHOOSE i \in hits : \A j \in hits : j <= i]>>

-----------------------------------------------------------------------------
(* Inputs *)

\* the names of the segments of generated lines; the empty name is the
\* segment between two adjacent slashes or after a trailing slash
Names == {<<>>, <<"A">>}

\* the lists of segments of the generated lines: every list of at most
\* MaxDepth names, the scenario /A/B, /A/C, /A/D/E, and a second top cell
\* with a name of two characters
SegmentLists ==
    UNION {[1..k -> Names] : k \in 1..MaxDepth}
    \cup { << <<"A">>, <<"B">> >>, << <<"A">>, <<"C">> >>,
           << <<"A">>, <<"D">>, <<"E">> >>, << <<"A", "B">> >> }

\* the text '/s1/.../sk' of a list of segments
PathOf(segs) == Join(<<<<>>>> \o segs)

\* the lines without their newline: the paths, and lines that do not start
\* with '/'
Bodies ==
    {PathOf(segs) : segs \in SegmentLists}
    \cup {<<>>, <<"A">>, <<"A", "/", "B">>}

EndsWithNewline(line) == Len(line) > 0 /\ line[Len(line)] = Newline

\* a line as iterating over a text file yields it: it ends with a newline,
\* or it is the non-empty last line of a file that does not
Lines ==
    {b \o <<Newline>> : b \in Bodies} \cup {b \in Bodies : b # <<>>}

\* the window sizes of VIDEORESIZE events and of earlier sessions
Screens == {<<DefaultScreenWidth, DefaultScreenHeight>>, <<400, 400>>}

\* the window sizes of the VIDEORESIZE events of the controller: the default
\* size, whose grid lines are on whole pixels, and a size whose grid lines
\* are not (a frame of 580 x 97, grid cells of 116 x 19.4)
ResizeScreens == {<<DefaultScreenWidth, DefaultScreenHeight>>, <<600, 407>>}

\* the files loaded in one step, each the list of its lines: the empty
\* file, a file without a line that starts with '/', a file whose only line
\* is '/', two levels with a last line without a newline, and three levels
\* with a branch
Files ==
    { <<>>,
      << <<"A", Newline>> >>,
      << <<"/", Newline>> >>,
      << <<"/", "A", "/", "B", Newline>>, <<"/", "A", "/", "A">> >>,
      << <<"/", "A", "/", "B", Newline>>,
         <<"/", "A", "/", "A", "/", "B", Newline>>,
         <<"/", "A", "/", "A", "/", "A", Newline>> >> }

\* the positions of the mouse and of clicks: on the left border of the
\* frame, on the heading of the cell shown, and inside a cell below it
Points == {<<10, 305>>, <<12, 302>>, <<20, 358>>}

-----------------------------------------------------------------------------
(* The controller: KTreeViewRunner *)

Event(type, hierarchy) == [type |-> type, hierarchy |-> hierarchy]

\* __init__
Init ==
    /\ screen_width = DefaultScreenWidth
    /\ screen_height = DefaultScreenHeight
    /\ initial_frame = InitialFrame(DefaultScreenWidth, DefaultScreenHeight)
    /\ top_cell = <<>>
    /\ current_shown_hierarchy = <<>>
    /\ tree_root = 0
    /\ nodes = <<>>
    /\ tree_cache = EmptyCache
    /\ cell_rects = EmptyRects
    /\ ratio_queue = <<>>
    /\ mouse_down = <<>>
    /\ progress_bar_current = 0
    /\ progress_bar_total = 0
    /\ raised = ""
    /\ pc = "idle"
    /\ event = Event("init", <<>>)

Running == raised = "" /\ pc = "idle"

\* the state display_hierarchy works on
DisplayState(cache) ==
    [tree_cache |-> cache, cell_rects |-> cell_rects,
     current |-> progress_bar_current, total |-> progress_bar_total,
     raised |-> ""]

\* display_hierarchy(self.tree_root, hierarchy) with the cache, tree and
\* frame given, as part of a handler
Display(cache, nds, root, frame, hierarchy) ==
    \E d \in {display_hierarchy(DisplayState(cache), nds, root, frame, hierarchy)} :
        /\ current_shown_hierarchy' = hierarchy
        /\ tree_cache' = d.tree_cache
        /\ cell_rects' = d.cell_rects
        /\ progress_bar_current' = d.current
        /\ progress_bar_total' = d.total
        /\ raised' = d.raised

\* one pass of the loop of run() up to event_polling: the mouse position is
\* read and tree_collision_check sets mouse_down.  self.mouse_pos is written
\* at the start of every pass and read only in that pass: it is the input
\* pos of this action and not a variable
Frame(pos) ==
    /\ Running
    /\ mouse_down' = tree_collision_check(initial_frame, cell_rects, pos, mouse_down)
    /\ event' = Event("frame", <<>>)
    /\ UNCHANGED <<screen_width, screen_height, initial_frame, top_cell,
                   current_shown_hierarchy, tree_root, nodes, tree_cache,
                   cell_rects, ratio_queue, progress_bar_current,
                   progress_bar_total, raised, pc>>

\* MOUSEBUTTONDOWN, button 1, on the rectangle of mouse_down
ClickTree(pos) ==
    /\ Running
    /\ mouse_down # <<>>
    /\ collidepoint(mouse_down[1].rect, pos)
    /\ Display(tree_cache, nodes, tree_root, initial_frame, mouse_down[1].full_path)
    /\ mouse_down' = <<>>
    /\ event' = Event("click", mouse_down[1].full_path)
    /\ UNCHANGED <<screen_width, screen_height, initial_frame, top_cell,
                   tree_root, nodes, ratio_queue, pc>>

\* a variant of the zoom out button without the test for the top cell
ClickZoomOutAlways ==
    /\ Running
    /\ current_shown_hierarchy # <<>>
    /\ LET parts == Split(current_shown_hierarchy)
           one_hierarchy_above == Join(SubSeq(parts, 1, Len(parts) - 1))
       IN  /\ Display(tree_cache, nodes, tree_root, initial_frame,
                      one_hierarchy_above)
           /\ event' = Event("zoom_out", one_hierarchy_above)
    /\ UNCHANGED <<screen_width, screen_height, initial_frame, top_cell,
                   tree_root, nodes, ratio_queue, mouse_down, pc>>

\* MOUSEBUTTONDOWN, button 1, on the zoom out button
ClickZoomOut ==
    /\ Running
    /\ current_shown_hierarchy # <<>>
    /\ LET parts == Split(current_shown_hierarchy)
           one_hierarchy_above == Join(SubSeq(parts, 1, Len(parts) - 1))
       IN  IF top_cell # current_shown_hierarchy
           THEN /\ Display(tree_cache, nodes, tree_root, initial_frame,
                           one_hierarchy_above)
                /\ event' = Event("zoom_out", one_hierarchy_above)
           ELSE /\ event' = Event("zoom_out_top", <<>>)
                /\ UNCHANGED <<current_shown_hierarchy, tree_cache, cell_rects,
                               progress_bar_current, progress_bar_total, raised>>
    /\ UNCHANGED <<screen_width, screen_height, initial_frame, top_cell,
                   tree_root, nodes, ratio_queue, mouse_down, pc>>

\* a variant of the reset button that drops the cache before it displays
ClickResetRecompute ==
    /\ Running
    /\ current_shown_hierarchy # <<>>
    /\ Display(EmptyCache, nodes, tree_root, initial_frame, top_cell)
    /\ event' = Event("reset", top_cell)
    /\ UNCHANGED <<screen_width, screen_height, initial_frame, top_cell,
                   tree_root, nodes, ratio_queue, mouse_down, pc>>

\* MOUSEBUTTONDOWN, button 1, on the reset button
ClickReset ==
    /\ Running
    /\ current_shown_hierarchy # <<>>
    /\ Display(tree_cache, nodes, tree_root, initial_frame, top_cell)
    /\ event' = Event("reset", top_cell)
    /\ UNCHANGED <<screen_width, screen_height, initial_frame, top_cell,
                   tree_root, nodes, ratio_queue, mouse_down, pc>>

\* MOUSEBUTTONDOWN, button 1, on the open button, and an existing file
\* chosen in the file browser: load_hierarchy as one step; rounds_down is
\* the rounding at the threshold in the ratio pass of this load
Load(file, rounds_down) ==
    /\ Running
    /\ top_cell' = get_top_cell(file)
    /\ tree_root' = RootId
    /\ event' = Event("load", get_top_cell(file))
    /\ IF UpdateProgressBarRaises(Len(file))
       THEN /\ nodes' = build_tree_from_text(file)
            /\ progress_bar_current' = Len(file)
            /\ progress_bar_total' = Len(file)
            /\ raised' = "ZeroDivisionError"
            /\ UNCHANGED <<current_shown_hierarchy, tree_cache, cell_rects>>
       ELSE \E nds \in {RatioPass(build_tree_from_text(file),
                                  <<RatioStep(RootId, RInt(screen_width),
                                              RInt(screen_height))>>,
                                  rounds_down)} :
                /\ nodes' = nds
                /\ Display(EmptyCache, nds, RootId, initial_frame,
                           get_top_cell(file))
    /\ UNCHANGED <<screen_width, screen_height, initial_frame, ratio_queue,
                   mouse_down, pc>>

\* VIDEORESIZE
Resize(w, h) ==
    /\ Running
    /\ screen_width' = w
    /\ screen_height' = h
    /\ initial_frame' = InitialFrame(w, h)
    /\ Display(EmptyCache, nodes, tree_root, InitialFrame(w, h),
               current_shown_hierarchy)
    /\ event' = Event("resize", current_shown_hierarchy)
    /\ UNCHANGED <<top_cell, tree_root, nodes, ratio_queue, mouse_down, pc>>

Next ==
    \/ \E pos \in Points : Frame(pos)
    \/ \E pos \in Points : ClickTree(pos)
    \/ ClickZoomOut
    \/ ClickReset
    \/ \E file \in Files : \E rounds_down \in BOOLEAN : Load(file, rounds_down)
    \/ \E s \in ResizeScreens : Resize(s[1], s[2])

Spec == Init /\ [][Next]_vars

-----------------------------------------------------------------------------
(* load_hierarchy followed step by step: the loop of build_tree_from_text  *)
(* line by line, then the loop over the ratio queue step by step.  The     *)
(* file has progress_bar_total lines, which are chosen as they are read.   *)

InitLoad ==
    /\ \E s \in Screens :
          /\ screen_width = s[1]
          /\ screen_height = s[2]
          /\ initial_frame = InitialFrame(s[1], s[2])
    /\ top_cell = <<>>
    /\ current_shown_hierarchy = <<>>
    /\ tree_root = 0
    /\ nodes = NewTree
    /\ tree_cache = EmptyCache
    /\ cell_rects = EmptyRects
    /\ ratio_queue = <<>>
    /\ mouse_down = <<>>
    /\ progress_bar_current = 0
    /\ progress_bar_total \in 0..MaxLines
    /\ raised = ""
    /\ pc = "build"
    /\ event = Event("load", <<>>)

\* one iteration of the for loop of build_tree_from_text
ReadLine(line) ==
    /\ pc = "build" /\ raised = ""
    /\ progress_bar_current < progress_bar_total
    /\ EndsWithNewline(line) \/ progress_bar_current + 1 = progress_bar_total
    /\ \E nds \in {BuildLine(nodes, line)} :
          /\ Len(nds) <= MaxNodes + 1
          /\ nodes' = nds
    /\ progress_bar_current' = progress_bar_current + 1
    /\ UNCHANGED <<screen_width, screen_height, initial_frame, top_cell,
                   current_shown_hierarchy, tree_root, tree_cache, cell_rects,
                   ratio_queue, mouse_down, progress_bar_total,
                   raised, pc, event>>

\* the file is exhausted: build_tree_from_text returns, the progress bar is
\* updated and the root is put on the ratio queue
EndBuild ==
    /\ pc = "build" /\ raised = ""
    /\ progress_bar_current = progress_bar_total
    /\ tree_root' = RootId
    /\ IF UpdateProgressBarRaises(progress_bar_total)
       THEN raised' = "ZeroDivisionError" /\ UNCHANGED <<ratio_queue, pc>>
       ELSE /\ ratio_queue' = Append(ratio_queue,
                                     RatioStep(RootId, RInt(screen_width),
                                               RInt(screen_height)))
            /\ pc' = "ratio"
            /\ UNCHANGED raised
    /\ UNCHANGED <<screen_width, screen_height, initial_frame, top_cell,
                   current_shown_hierarchy, nodes, tree_cache, cell_rects,
                   mouse_down, progress_bar_current,
                   progress_bar_total, event>>

\* one iteration of the while loop over the ratio queue
RatioStepDone(rounds_down) ==
    /\ pc = "ratio" /\ raised = ""
    /\ Len(ratio_queue) > 0
    /\ LET step == Head(ratio_queue)
           r == update_ratio(nodes, Tail(ratio_queue), step.node,
                             step.reference_width, step.reference_height,
                             rounds_down)
       IN  /\ nodes' = r.nodes
           /\ ratio_queue' = r.queue
    /\ UNCHANGED <<screen_width, screen_height, initial_frame, top_cell,
                   current_shown_hierarchy, tree_root, tree_cache, cell_rects,
                   mouse_down, progress_bar_current,
                   progress_bar_total, raised, pc, event>>

NextLoad ==
    \/ \E line \in Lines : ReadLine(line)
    \/ EndBuild
    \/ \E rounds_down \in BOOLEAN : RatioStepDone(rounds_down)

SpecLoad == InitLoad /\ [][NextLoad]_vars

\* the while loop over the ratio queue is not suspended: while the queue is
\* not empty its next iteration is taken.  The condition of the loop is
\* written out; it is when RatioStepDone can be taken
RatioLoopRuns ==
    \/ <>[]~(pc = "ratio" /\ raised = "" /\ Len(ratio_queue) > 0)
    \/ []<><<\E rounds_down \in BOOLEAN : RatioStepDone(rounds_down)>>_vars

\* load_hierarchy runs to its end once called: its loops are not suspended
SpecLoadFair == SpecLoad /\ WF_vars(EndBuild) /\ RatioLoopRuns

-----------------------------------------------------------------------------
(* Properties of the tree, checked while a file is read (SpecLoad) *)

NodeIds(nds) == 1..Len(nds)

\* n is on the chain of parent references that starts at the parent of m
RECURSIVE IsBelow(_, _, _)
IsBelow(nds, m, n) ==
    /\ nds[m].parent # 0
    /\ (nds[m].parent = n \/ IsBelow(nds, nds[m].parent, n))

StrictDescendants(nds, n) == {m \in NodeIds(nds) : IsBelow(nds, m, n)}

IsLeaf(nds, n) == Len(nds[n].children) = 0

\* the node reached from n by following the names segs, 0 if there is none
RECURSIVE Follow(_, _, _)
Follow(nds, n, segs) ==
    IF Len(segs) = 0 THEN n
    ELSE IF ChildNamed(nds, n, segs[1]) = 0 THEN 0
    ELSE Follow(nds, ChildNamed(nds, n, segs[1]), Tail(segs))

C4_RoundTrip ==
    [][\A segs \in SegmentLists : \A nl \in BOOLEAN :
          LET line == PathOf(segs) \o (IF nl THEN <<Newline>> ELSE <<>>)
          IN  ((\A i \in 1..Len(segs) : segs[i] # <<>>) /\ ReadLine(line))
              => /\ Follow(nodes', RootId, segs) # 0
                 /\ get_full_path(nodes', Follow(nodes', RootId, segs)) = PathOf(segs)
                 /\ get_full_path(nodes', RootId) = <<>>]_vars

\* the line /A/D/E has been read: its node is three levels below the root
C4_Witness ==
    \E n \in NodeIds(nodes) :
        /\ get_full_path(nodes, n) = <<"/", "A", "/", "D", "/", "E">>
        /\ nodes[nodes[nodes[n].parent].parent].parent = RootId

\* the file of the scenario and the tree built from it
ScenarioFile ==
    << <<"/", "A", "/", "B", Newline>>, <<"/", "A", "/", "C", Newline>>,
       <<"/", "A", "/", "D", "/", "E", Newline>> >>

Shape(nds) ==
    [i \in NodeIds(nds) |-> <<nds[i].name, nds[i].parent, nds[i].children>>]

C8_NamesNonEmpty ==
    /\ [](\A n \in NodeIds(nodes) \ {RootId} :
             nodes[n].name # <<>> /\ Slash \notin Range(nodes[n].name))
    /\ [][\A line \in Lines :
             (ReadLine(line)
              /\ (\/ ~StartsWithSlash(line)
                  \/ \A i \in 1..Len(line) : line[i] \in {Slash, Newline}))
             => Len(nodes') = Len(nodes)]_vars

-----------------------------------------------------------------------------
(* Properties of the ratios, checked while the ratio queue is worked off   *)
(* (SpecLoad)                                                              *)

\* update_ratio has run on node n: n has left the ratio queue, which it
\* entered when its own ratio was assigned (the root: when the build ended)
Updated(n) ==
    /\ pc = "ratio"
    /\ \A i \in 1..Len(ratio_queue) : ratio_queue[i].node # n
    /\ n = RootId \/ nodes[n].ratio # <<>>

ChildSizes(nds, n) ==
    [i \in 1..Len(nds[n].children) |-> get_size(nds, nds[n].children[i])]

RECURSIVE RSum(_)
RSum(s) == IF Len(s) = 0 THEN RInt(0) ELSE RAdd(s[1], RSum(Tail(s)))

RatioArea(nds, c) == RMul(nds[c].ratio[1].width, nds[c].ratio[1].height)

\* C2: after update_ratio on a node n with at least one child, every child
\* c of n has a ratio with width * height = get_size(c) / (sum of get_size
\* over the children of n), and the areas of the children sum to 1, in
\* exact arithmetic.
C2_AreaConservation ==
    \A n \in NodeIds(nodes) :
        (Len(nodes[n].children) > 0 /\ Updated(n))
        => LET children == nodes[n].children
               total == SumSeq(ChildSizes(nodes, n))
           IN  /\ \A i \in 1..Len(children) : nodes[children[i]].ratio # <<>>
               /\ \A i \in 1..Len(children) :
                     RatioArea(nodes, children[i]) =
                         Rat(get_size(nodes, children[i]), total)
               /\ RSum([i \in 1..Len(children) |->
                           RatioArea(nodes, children[i])]) = RInt(1)

\* update_ratio has run on a node with children of different sizes
C2_Witness ==
    \E n \in NodeIds(nodes) :
        /\ Updated(n)
        /\ Len(nodes[n].children) >= 2
        /\ \E i, j \in 1..Len(nodes[n].children) :
              get_size(nodes, nodes[n].children[i])
                  # get_size(nodes, nodes[n].children[j])

InUnitInterval(r) == RLe(RInt(0), r) /\ RLe(r, RInt(1))

\* C3: every ratio assigned to a node below the root has x, y, width and
\* height in [0, 1], x + width <= 1 and y + height <= 1; when the ratio
\* queue is empty every node below the root has such a ratio.
C3_RatioBounds ==
    \A n \in NodeIds(nodes) \ {RootId} :
        /\ (pc = "ratio" /\ ratio_queue = <<>>) => nodes[n].ratio # <<>>
        /\ nodes[n].ratio # <<>>
           => LET r == nodes[n].ratio[1]
              IN  /\ InUnitInterval(r.x) /\ InUnitInterval(r.y)
                  /\ InUnitInterval(r.width) /\ InUnitInterval(r.height)
                  /\ RLe(RAdd(r.x, r.width), RInt(1))
                  /\ RLe(RAdd(r.y, r.height), RInt(1))

\* the ratio pass is over on a tree with a cell that does not start at the
\* left edge and a cell that does not start at the top edge of its parent
C3_Witness ==
    /\ pc = "ratio" /\ ratio_queue = <<>>
    /\ Len(nodes) >= 4
    /\ \E n \in NodeIds(nodes) \ {RootId} :
          nodes[n].ratio # <<>> /\ RLt(RInt(0), nodes[n].ratio[1].x)
    /\ \E n \in NodeIds(nodes) \ {RootId} :
          nodes[n].ratio # <<>> /\ RLt(RInt(0), nodes[n].ratio[1].y)

-----------------------------------------------------------------------------
(* Properties of the controller (Spec) *)

\* the events whose handler calls display_hierarchy without a resize or a
\* load: a click on a cell, on the zoom out button, on the reset button
IsDisplayEvent(e) == e.type \in {"click", "zoom_out", "reset"}

\* the node display_hierarchy resolves a hierarchy to
ResolvedNode(hierarchy) == Resolve(nodes, RootId, Tail(Split(hierarchy)))

\* C6: display_hierarchy on a path that is in the cache is a cache hit: the
\* rectangles shown are those of the entry, nothing is drawn (the progress
\* counters keep their values), and the cache and the ratios of the nodes
\* are unchanged; on the path already shown the rectangles shown do not
\* change.  A display that is no hit leaves the other entries unchanged and
\* stores what it shows, so that a later hit returns it.
C6_CacheHit ==
    /\ [][(IsDisplayEvent(event') /\ event'.hierarchy \in DOMAIN tree_cache)
          => /\ cell_rects' = tree_cache[event'.hierarchy]
             /\ tree_cache' = tree_cache
             /\ nodes' = nodes
             /\ progress_bar_current' = progress_bar_current
             /\ progress_bar_total' = progress_bar_total
             /\ raised' = ""
             /\ event'.hierarchy = current_shown_hierarchy
                => cell_rects' = cell_rects]_vars
    /\ [][IsDisplayEvent(event')
          => /\ \A k \in DOMAIN tree_cache :
                   k \in DOMAIN tree_cache' /\ tree_cache'[k] = tree_cache[k]
             /\ event'.hierarchy \in DOMAIN tree_cache'
             /\ tree_cache'[event'.hierarchy] = cell_rects']_vars

\* the reset button has shown the top cell from the cache: the progress
\* counters are still those of the zoomed view drawn before
C6_Witness ==
    /\ event.type = "reset" /\ raised = "" /\ tree_root # 0
    /\ Cardinality(DOMAIN tree_cache) >= 2
    /\ top_cell \in DOMAIN tree_cache
    /\ cell_rects = tree_cache[top_cell]
    /\ progress_bar_total # get_leaf_count(nodes, ResolvedNode(top_cell))

\* what display_hierarchy computes for the path shown, on the tree and
\* frame of the current state, starting from an empty cache
FreshDisplay ==
    display_hierarchy([tree_cache |-> EmptyCache, cell_rects |-> EmptyRects,
                       current |-> 0, total |-> 0, raised |-> ""],
                      nodes, tree_root, initial_frame, current_shown_hierarchy)

\* C7: right after a resize with a tree loaded, and right after a load, the
\* cache has exactly one entry, for the path shown, computed against the
\* frame and tree of that moment, and these are the rectangles shown; a
\* resize leaves the ratios of the nodes unchanged.
C7_CacheCleared ==
    /\ []((event.type \in {"load", "resize"} /\ tree_root # 0)
          => /\ DOMAIN tree_cache = {current_shown_hierarchy}
             /\ tree_cache[current_shown_hierarchy] = FreshDisplay.cell_rects
             /\ cell_rects = tree_cache[current_shown_hierarchy])
    /\ [][event'.type = "resize" => nodes' = nodes]_vars

\* C9: a load of a file without a valid hierarchy path, the file with zero
\* lines included, raises nothing: the top cell is empty, the tree is the
\* root alone, and the root is displayed.
C9_NoValidPathLoads ==
    (event.type = "load" /\ top_cell = <<>>)
    => /\ raised = ""
       /\ Len(nodes) = 1
       /\ current_shown_hierarchy = <<>>
       /\ DOMAIN tree_cache = {<<>>}
       /\ cell_rects = tree_cache[<<>>]

\* C10: a display of a path with a segment that is not in the tree raises
\* nothing, shows the rectangles of the subtree of the deepest node that
\* exists along the path, and the path then reported as shown is the full
\* path of that node, the prefix that was resolved.
C10_ResolvedPrefix ==
    (IsDisplayEvent(event) /\ tree_root # 0)
    => /\ raised = ""
       /\ cell_rects = FreshDisplay.cell_rects
       /\ current_shown_hierarchy =
              get_full_path(nodes, ResolvedNode(event.hierarchy))


\* all CellRect of a view in the order draw_node makes them: the draw loop
\* of display_hierarchy run with one quadrant that holds every rectangle
AllRects(nds, node, frame) ==
    LET everything == RectFrame(RInt(0 - 100000), RInt(0 - 100000),
                                RInt(200000), RInt(200000))
    IN  DrawAll(nds, [i \in 1..(spatial_partition_size * spatial_partition_size)
                         |-> everything],
                [rects |-> EmptyRects, queue |-> <<DrawStep(node, frame)>>,
                 current |-> 0, raised |-> ""]).rects[0]

StrictlyInside(frame, pos) ==
    /\ RLt(frame.x, RInt(pos[1])) /\ RLt(RInt(pos[1]), RAdd(frame.x, frame.width))
    /\ RLt(frame.y, RInt(pos[2])) /\ RLt(RInt(pos[2]), RAdd(frame.y, frame.height))

\* the last rectangle of the list that contains pos, down if there is none
FullScan(list, pos, down) ==
    LET hits == {i \in 1..Len(list) : collidepoint(list[i].rect, pos)}
    IN  IF hits = {} THEN down
        ELSE <<list[CHOOSE i \in hits : \A j \in hits : j <= i]>>

\* C11: for the view shown and a mouse position strictly inside the frame,
\* tree_collision_check, which scans the list of one grid cell, selects the
\* same cell as a scan over all rectangles of the view in drawing order:
\* the last drawn, most deeply nested, rectangle that contains the position.
C11_GridQuery ==
    [][\A pos \in Points :
          (Frame(pos) /\ tree_root # 0 /\ StrictlyInside(initial_frame, pos))
          => mouse_down' =
                 FullScan(AllRects(nodes, ResolvedNode(current_shown_hierarchy),
                                   initial_frame),
                          pos, mouse_down)]_vars


\* a path without its last segment: what is before its last '/'
DropLastSegment(path) ==
    LET slashes == {i \in 1..Len(path) : path[i] = Slash}
    IN  IF slashes = {} THEN <<>>
        ELSE SubSeq(path, 1, (CHOOSE i \in slashes : \A j \in slashes : j <= i) - 1)

\* the node of the top cell, the root if the top cell is empty
TopNode == Follow(nodes, RootId, Tail(Split(top_cell)))

\* the path shown is the top cell or the full path of a descendant of it
InTopCell ==
    \/ current_shown_hierarchy = top_cell
    \/ /\ tree_root # 0
       /\ TopNode # 0
       /\ \E m \in StrictDescendants(nodes, TopNode) :
             get_full_path(nodes, m) = current_shown_hierarchy

\* the rectangle under the mouse is one of the view shown
MouseDownInView ==
    /\ mouse_down # <<>>
    /\ \E i \in GridCells : \E j \in 1..Len(cell_rects[i]) :
          cell_rects[i][j] = mouse_down[1]

\* C12: zoom out from a path P that is not the top cell shows P without
\* its last segment; zoom out while the top cell is shown changes nothing;
\* reset shows the top cell; a load shows the top cell, and from then on
\* clicks on rectangles of the view shown, zoom outs, resets (and resizes
\* and mouse moves) keep the path shown at the top cell or at the full path
\* of one of its descendants.
C12_Navigation ==
    /\ [][event'.type = "zoom_out"
          => /\ current_shown_hierarchy # top_cell
             /\ current_shown_hierarchy' = DropLastSegment(current_shown_hierarchy)]_vars
    /\ [][event'.type = "zoom_out_top"
          => /\ current_shown_hierarchy = top_cell
             /\ UNCHANGED <<current_shown_hierarchy, cell_rects, tree_cache,
                            nodes, top_cell>>]_vars
    /\ [][event'.type = "reset" => current_shown_hierarchy' = top_cell]_vars
    /\ [][(event'.type = "load" /\ raised' = "")
          => current_shown_hierarchy' = top_cell' /\ InTopCell']_vars
    /\ [][(InTopCell /\ event'.type # "load"
           /\ (event'.type = "click" => MouseDownInView))
          => InTopCell']_vars

\* zoom out has led from a cell below the top cell back to the top cell
C12_Witness ==
    /\ event.type = "zoom_out" /\ raised = ""
    /\ current_shown_hierarchy = top_cell
    /\ Cardinality(DOMAIN tree_cache) >= 2
    /\ Len(nodes) >= 4


-----------------------------------------------------------------------------
(* Properties of the partition loop of update_ratio (SpecLoad) *)

\* the state of update_ratio before its outer while loop
StartOf(nds, step) ==
    LET children_to_update == SortByCount(nds, nds[step.node].children)
        ref == adjust_rectangle_dimensions(step.reference_width,
                                           step.reference_height,
                                           SumSeq(ChildSizes(nds, step.node)))
    IN  [st |-> [nodes |-> nds, queue |-> <<>>,
                 children_to_update |-> children_to_update,
                 reference_width |-> ref.width, reference_height |-> ref.height,
                 global_ratio_x |-> RInt(0), global_ratio_y |-> RInt(0),
                 current_width |-> ref.width, current_height |-> ref.height],
         unit |-> ref.unit]

\* the outer iterations of update_ratio, one record each: the direction,
\* the partition length, the worklist before, the cells accumulated, the
\* ratio tested last, whether the worklist ran empty, and the cells of the
\* strip laid out
RECURSIVE StripsFrom(_, _, _)
StripsFrom(st, unit, rounds_down) ==
    IF Len(st.children_to_update) = 0 THEN <<>>
    ELSE LET is_wider == RLt(st.current_height, st.current_width)
             partition_length ==
                 IF is_wider THEN st.current_height ELSE st.current_width
             acc == Accumulate(st.nodes, unit, partition_length, <<>>,
                               st.children_to_update, RInt(0), rounds_down)
         IN  IF Len(acc.partition_buffer) <= 0
             THEN << [is_wider |-> is_wider, partition_length |-> partition_length,
                      unit |-> unit,
                      worklist |-> st.children_to_update,
                      accumulated |-> <<>>, ratio |-> acc.ratio,
                      exhausted |-> TRUE, strip |-> <<>>] >>
             ELSE << [is_wider |-> is_wider, partition_length |-> partition_length,
                      unit |-> unit,
                      worklist |-> st.children_to_update,
                      accumulated |-> acc.partition_buffer, ratio |-> acc.ratio,
                      exhausted |-> acc.children_to_update = <<>>,
                      strip |-> BackOut(acc).partition_buffer] >>
                  \o StripsFrom(LayOutStrip(st, unit, is_wider, partition_length,
                                            BackOut(acc)), unit, rounds_down)

\* the outer iterations of the update_ratio call at the head of the queue
StripsOfHead(rounds_down) ==
    LET start == StartOf(nodes, Head(ratio_queue))
    IN  StripsFrom(start.st, start.unit, rounds_down)

\* the cells of a strip lie on one line in the ratios assigned: one x and
\* one width in a strip of a wider rectangle, one y and one height otherwise
Aligned(nds, s) ==
    \A i, j \in 1..Len(s.strip) :
        LET a == nds[s.strip[i]].ratio[1]
            b == nds[s.strip[j]].ratio[1]
        IN  IF s.is_wider THEN a.x = b.x /\ a.width = b.width
            ELSE a.y = b.y /\ a.height = b.height

\* C13: in every outer iteration of update_ratio the last accumulated cell
\* is returned to the worklist only if the ratio tested after adding it had
\* reached 2; if accumulation stopped because the worklist was empty with
\* the tested ratio below 2, all accumulated cells are laid out together in
\* that strip.
C13_BackOutRule ==
    [][\A rounds_down \in BOOLEAN :
          RatioStepDone(rounds_down)
          => \A k \in 1..Len(StripsOfHead(rounds_down)) :
                LET s == StripsOfHead(rounds_down)[k]
                IN  /\ Len(s.strip) < Len(s.accumulated)
                       => ~BelowThreshold(s.ratio, rounds_down)
                    /\ (s.exhausted /\ BelowThreshold(s.ratio, rounds_down))
                       => s.strip = s.accumulated
                    /\ \A i \in 1..Len(s.strip) : nodes'[s.strip[i]].ratio # <<>>
                    /\ Aligned(nodes', s)]_vars


\* strip width over strip length of the cell c of a partition buffer
MemberRatio(nds, s, buffer, c) ==
    LET partition_buffer_size == SizeOf(nds, s.unit, buffer)
    IN  RDiv(RDiv(partition_buffer_size, s.partition_length),
             RDiv(RMul(s.partition_length, SizeOf(nds, s.unit, <<c>>)),
                  partition_buffer_size))

\* C14: at every test of the aspect ratio in update_ratio the cell added
\* last has the least get_size of the cells in the partition buffer, and
\* the ratio tested is the greatest ratio of strip width to strip length
\* of any cell in the buffer.
C14_LastIsSmallest ==
    [][\A rounds_down \in BOOLEAN :
          RatioStepDone(rounds_down)
          => \A k \in 1..Len(StripsOfHead(rounds_down)) :
                LET s == StripsOfHead(rounds_down)[k]
                IN  \A j \in 1..Len(s.accumulated) :
                       LET buffer == SubSeq(s.accumulated, 1, j)
                       IN  \A i \in 1..j :
                              /\ get_size(nodes, buffer[j]) <= get_size(nodes, buffer[i])
                              /\ RLe(MemberRatio(nodes, s, buffer, buffer[i]),
                                     SmallestRatio(nodes, s.unit,
                                                   s.partition_length, buffer))]_vars

\* update_ratio has run on the root, and one of its strips was tested with
\* two cells of different sizes in the buffer
C14_Witness ==
    /\ Updated(RootId)
    /\ \E rounds_down \in BOOLEAN :
          LET start == StartOf(nodes, RatioStep(RootId, RInt(screen_width),
                                                RInt(screen_height)))
              strips == StripsFrom(start.st, start.unit, rounds_down)
          IN  \E k \in 1..Len(strips) :
                 /\ Len(strips[k].accumulated) >= 2
                 /\ get_size(nodes, strips[k].accumulated[1])
                       # get_size(nodes, strips[k].accumulated[2])


RECURSIVE Concat(_)
Concat(seqs) == IF Len(seqs) = 0 THEN <<>> ELSE Head(seqs) \o Concat(Tail(seqs))

\* the nodes update_ratio has still to be called on: those in the ratio
\* queue and those that have not entered it
Remaining ==
    Len(ratio_queue)
    + Cardinality({n \in NodeIds(nodes) \ {RootId} : nodes[n].ratio = <<>>})

\* C15: every outer iteration of update_ratio lays out a strip of at least
\* one cell and leaves a shorter worklist; the strips hold every child of
\* the node exactly once; each call takes one node from the ratio queue and
\* appends its children, so no node enters the queue twice and the number
\* of nodes still to be handled falls by one; the ratio pass ends with an
\* empty queue and a ratio on every node below the root.
C15_Termination ==
    /\ [][\A rounds_down \in BOOLEAN :
             RatioStepDone(rounds_down)
             => LET strips == StripsOfHead(rounds_down)
                    placed == Concat([k \in 1..Len(strips) |-> strips[k].strip])
                    children == nodes[Head(ratio_queue).node].children
                IN  /\ \A k \in 1..Len(strips) :
                          /\ Len(strips[k].strip) >= 1
                          /\ k < Len(strips)
                             => Len(strips[k + 1].worklist) < Len(strips[k].worklist)
                          /\ k = Len(strips)
                             => Len(strips[k].worklist) = Len(strips[k].strip)
                    /\ Len(placed) = Len(children)
                    /\ Range(placed) = Range(children)
                    /\ [i \in 1..Len(ratio_queue') |-> ratio_queue'[i].node]
                          = [i \in 1..(Len(ratio_queue) - 1) |-> ratio_queue[i + 1].node]
                            \o placed
                    /\ Remaining' = Remaining - 1]_vars
    /\ [](pc = "ratio"
          => /\ \A i, j \in 1..Len(ratio_queue) :
                   ratio_queue[i].node = ratio_queue[j].node => i = j
             /\ Remaining <= Len(nodes))
    /\ (pc = "ratio") ~> (pc = "ratio" /\ ratio_queue = <<>> /\ Remaining = 0)

\* the ratio pass has ended on a tree of three levels with a node that has
\* more than one child
C15_Witness ==
    /\ pc = "ratio" /\ ratio_queue = <<>> /\ Remaining = 0
    /\ \E n \in NodeIds(nodes) :
          nodes[n].parent # 0 /\ nodes[nodes[n].parent].parent # 0
    /\ \E n \in NodeIds(nodes) : Len(nodes[n].children) >= 2


-----------------------------------------------------------------------------
(* Frames of the drawn nodes *)

\* the nodes display_hierarchy draws, in the order of the draw queue, each
\* with its rect_frame and, in a sequence of at most one, the rect_frame of
\* the node whose draw_node call queued it
RECURSIVE DrawnFrames(_, _, _)
DrawnFrames(nds, quadrants, pending) ==
    IF Len(pending) = 0 THEN <<>>
    ELSE LET step == Head(pending)
             d == draw_node(nds, quadrants,
                            [rects |-> EmptyRects, queue |-> <<>>,
                             current |-> 0, raised |-> ""],
                            step.node, step.rect_frame)
             below == [i \in 1..Len(d.queue) |->
                          [node |-> d.queue[i].node,
                           rect_frame |-> d.queue[i].rect_frame,
                           parent |-> <<step.rect_frame>>]]
         IN  <<step>> \o DrawnFrames(nds, quadrants, Tail(pending) \o below)

\* what is drawn in frame for the view whose resolved node is node
ViewFrames(node, frame) ==
    DrawnFrames(nodes, Quadrants(frame),
                <<[node |-> node, rect_frame |-> frame, parent |-> <<>>]>>)

\* the initial frames of the window sizes
ViewFramesOfWindows ==
    {InitialFrame(s[1], s[2]) : s \in Screens \cup ResizeScreens}

\* child lies in parent shrunk by 5 on the left, 15 on the top, 5 on the
\* right and 5 on the bottom
WithinInset(child, parent) ==
    /\ RLe(RAdd(parent.x, RInt(5)), child.x)
    /\ RLe(RAdd(parent.y, RInt(15)), child.y)
    /\ RLe(RAdd(child.x, child.width),
           RSub(RAdd(parent.x, parent.width), RInt(5)))
    /\ RLe(RAdd(child.y, child.height),
           RSub(RAdd(parent.y, parent.height), RInt(5)))

\* the rectangle drawn for child neither touches nor crosses the border of
\* the rectangle drawn for parent
InsideBorder(child, parent) ==
    /\ parent.x < child.x
    /\ parent.y < child.y
    /\ child.x + child.width < parent.x + parent.width
    /\ child.y + child.height < parent.y + parent.height

\* C16: once the ratios are set, in every view (of any node, in the initial
\* frame of any window size) the rect_frame of each drawn node other than
\* the node of the view lies inside the rect_frame of its parent shrunk by
\* the inset (5 left, 15 top, 5 right, 5 bottom), the rectangle drawn for it
\* does not touch or cross the border of the rectangle drawn for its parent,
\* and its parent is wider than 20 and taller than 40; the rectangles
\* display_hierarchy stores for the view are the drawn ones
C16_ChildInset ==
    (pc = "ratio" /\ ratio_queue = <<>>) =>
        \A frame \in ViewFramesOfWindows : \A n \in NodeIds(nodes) :
           LET frames == ViewFrames(n, frame)
               d == DrawAll(nodes, Quadrants(frame),
                            [rects |-> EmptyRects,
                             queue |-> <<DrawStep(n, frame)>>,
                             current |-> 0, raised |-> ""])
           IN  /\ \A i \in 1..Len(frames) :
                     frames[i].parent # <<>> =>
                        /\ WithinInset(frames[i].rect_frame, frames[i].parent[1])
                        /\ InsideBorder(PygameRect(frames[i].rect_frame),
                                        PygameRect(frames[i].parent[1]))
                        /\ RLt(RInt(20), frames[i].parent[1].width)
                        /\ RLt(RInt(40), frames[i].parent[1].height)
               /\ \A g \in GridCells : \A k \in 1..Len(d.rects[g]) :
                     \E i \in 1..Len(frames) :
                        d.rects[g][k] =
                           CellRect(get_full_path(nodes, frames[i].node),
                                    PygameRect(frames[i].rect_frame))
               /\ \A i \in 1..Len(frames) : \E g \in GridCells :
                     \E k \in 1..Len(d.rects[g]) :
                        d.rects[g][k] =
                           CellRect(get_full_path(nodes, frames[i].node),
                                    PygameRect(frames[i].rect_frame))

\* the ratios are set and the view of the root in the initial frame of the
\* window draws a grandchild of a child of the root, and leaves out the
\* children of some node because its frame is not wider than 20 or not
\* taller than 40
C16_Witness ==
    /\ pc = "ratio" /\ ratio_queue = <<>> /\ raised = ""
    /\ \E frame \in ViewFramesOfWindows :
          LET frames == ViewFrames(RootId, frame)
          IN  /\ \E i, j \in 1..Len(frames) :
                    /\ frames[i].parent = <<frames[j].rect_frame>>
                    /\ frames[j].parent # <<>>
              /\ \E i \in 1..Len(frames) :
                    /\ Len(nodes[frames[i].node].children) > 0
                    /\ \/ RLe(frames[i].rect_frame.width, RInt(20))
                       \/ RLe(frames[i].rect_frame.height, RInt(40))


\* what display_hierarchy draws for the view of node in frame
DrawnView(node, frame) ==
    DrawAll(nodes, Quadrants(frame),
            [rects |-> EmptyRects, queue |-> <<DrawStep(node, frame)>>,
             current |-> 0, raised |-> ""])

\* C17: no outer iteration of update_ratio finds the partition buffer empty
\* after the inner loop; when the ratio queue is empty every node below the
\* root has a ratio, and drawing any view of the tree, in the initial frame
\* of any window size, raises nothing: draw_node reads no absent ratio.
C17_RatiosAssigned ==
    /\ [][\A rounds_down \in BOOLEAN :
             RatioStepDone(rounds_down)
             => \A k \in 1..Len(StripsOfHead(rounds_down)) :
                   Len(StripsOfHead(rounds_down)[k].accumulated) > 0]_vars
    /\ []((pc = "ratio" /\ ratio_queue = <<>>)
          => /\ \A n \in NodeIds(nodes) \ {RootId} : nodes[n].ratio # <<>>
             /\ \A frame \in ViewFramesOfWindows : \A n \in NodeIds(nodes) :
                   DrawnView(n, frame).raised = "")

\* the ratio queue is empty and the view of the root in the initial frame
\* of the window draws the root, a child and a grandchild into one grid
\* cell: draw_node has read the ratios of the children of two nodes
C17_Witness ==
    /\ pc = "ratio" /\ ratio_queue = <<>> /\ raised = ""
    /\ Len(nodes) >= 4
    /\ LET d == DrawnView(RootId, initial_frame)
       IN  d.raised = "" /\ \E g \in GridCells : Len(d.rects[g]) >= 3


\* the interiors of the rectangles a and b do not meet
DisjointInteriors(a, b) ==
    \/ RLe(RAdd(a.x, a.width), b.x)
    \/ RLe(RAdd(b.x, b.width), a.x)
    \/ RLe(RAdd(a.y, a.height), b.y)
    \/ RLe(RAdd(b.y, b.height), a.y)

\* C18: after update_ratio on a node the ratio rectangles of any two
\* distinct children have disjoint interiors; they lie in the unit square
\* and their areas sum to 1, so they tile it.
C18_SiblingsDisjoint ==
    \A n \in NodeIds(nodes) :
        Updated(n)
        => LET children == nodes[n].children
           IN  /\ \A i, j \in 1..Len(children) :
                     i # j => DisjointInteriors(nodes[children[i]].ratio[1],
                                                nodes[children[j]].ratio[1])
               /\ \A i \in 1..Len(children) :
                     LET r == nodes[children[i]].ratio[1]
                     IN  /\ RLe(RInt(0), r.x) /\ RLe(RInt(0), r.y)
                         /\ RLt(RInt(0), r.width) /\ RLt(RInt(0), r.height)
                         /\ RLe(RAdd(r.x, r.width), RInt(1))
                         /\ RLe(RAdd(r.y, r.height), RInt(1))
               /\ Len(children) > 0
                  => RSum([i \in 1..Len(children) |->
                              RatioArea(nodes, children[i])]) = RInt(1)

\* update_ratio has run on a node with two children in one strip and a
\* third child in another strip
C18_Witness ==
    \E n \in NodeIds(nodes) :
        /\ Updated(n)
        /\ \E i, j, k \in 1..Len(nodes[n].children) :
              LET a == nodes[nodes[n].children[i]].ratio[1]
                  b == nodes[nodes[n].children[j]].ratio[1]
                  c == nodes[nodes[n].children[k]].ratio[1]
              IN  \/ a.y = b.y /\ a.x # b.x /\ c.y # a.y
                  \/ a.x = b.x /\ a.y # b.y /\ c.x # a.x


\* C19: whatever the order of the events, no handler has raised, and when a
\* handler has run display_hierarchy (a resize, a load, a click on a cell,
\* on the zoom out button or on the reset button that displays) a tree is
\* loaded; a resize before any load completes without an exception.
C19_NoErrorState ==
    /\ raised = ""
    /\ event.type \in {"resize", "load", "click", "zoom_out", "reset"}
       => tree_root # 0

=============================================================================
